---- MODULE Spec2Model ----
(***************************************************************************)
(* A model of libsyscall_intercept (RISC-V 64 port): the dispatcher        *)
(* intercept_routine with its post-clone hooks, and the startup            *)
(* constructor intercept() with the patch planner and the activator.       *)
(***************************************************************************)
EXTENDS Integers, Sequences, FiniteSets, TLC

(***************************************************************************)
(* Program constants.                                                      *)
(***************************************************************************)
UNH_SYSCALL == -4096
UNH_GENERIC == -4097
UNH_CLONE == -4098

SYS_rt_sigreturn == 139
SYS_write == 64
SYS_clone == 220
SYS_clone3 == 435
CLONE_VFORK == 16384

(***************************************************************************)
(* Bounds of the dispatcher model.                                         *)
(***************************************************************************)
MaxProcs == 2
MaxCalls == 2

ProcIds == 1..MaxProcs

(***************************************************************************)
(* Input domains of the dispatcher model.                                  *)
(***************************************************************************)
\* Syscall numbers arriving in a7: a 64-bit register, kept as its upper and
\* lower 32-bit halves (libc sets the upper half to 0; one value has it set).
Nrs == {SYS_write, SYS_rt_sigreturn, SYS_clone, SYS_clone3}
A7s == [hi : {0}, lo : Nrs] \cup {[hi |-> 1, lo |-> SYS_rt_sigreturn]}

\* args[1] is the clone flags word, or the address of a struct clone_args;
\* args[2] is the child stack pointer of clone.
PlainFlags == <<17>>
VforkFlags == <<17 + CLONE_VFORK>>
NewStack == <<28672>>
Arg0s == {PlainFlags[1], VforkFlags[1]}
Arg1s == {0, NewStack[1]}
ArgTuples == {<<f, s, 3, 4, 5, 6>> : f \in Arg0s, s \in Arg1s}

\* intercept_routine reads the argument words of clone and clone3 only; every
\* other call passes them through, and arrives with one tuple.
ArgsFor(nr) ==
    IF nr \in {SYS_clone, SYS_clone3}
    THEN ArgTuples
    ELSE {<<PlainFlags[1], 0, 3, 4, 5, 6>>}

\* What the user hook may store in *result: <<v>>, or nothing (NoWrite).
NoWrite == <<>>
HookValue == <<42>>
HookError == <<-22>>
HookWrites == {NoWrite, HookValue, HookError}
HookRets == {0, 1}

\* What the kernel returns in (a0, a1) to a call that is not a clone.
KernelOk == <<5, 70>>
KernelError == <<-11, 71>>
KernelRets == {KernelOk, KernelError}

\* What the kernel returns to a clone: an error, or the child's TID in the
\* parent and 0 in the child.
CloneError == <<-11, 72>>
Tid(q) == 7 + q
CloneInParent(q) == <<Tid(q), 72>>
CloneInChild == <<0, 72>>

VARIABLES hooks, proc, calls,
          patch_all_objs, libc_found, objs, cur_asm_relocation_space, ctor, mem,
          site, wrapper

dvars == <<hooks, proc, calls>>
svars == <<patch_all_objs, libc_found, objs, cur_asm_relocation_space, ctor, mem>>
rvars == <<site, wrapper>>
vars == <<dvars, svars, rvars>>

(***************************************************************************)
(* Pure parts of intercept_routine.                                        *)
(***************************************************************************)

\* struct syscall_desc.nr = (int)a7: the upper 32 bits are dropped.
DescNr(a7) == a7.lo

\* struct wrapper_ret result = {.a0 = a0, .a1 = a1}
InitialResult(args) == <<args[1], args[2]>>

\* A write through the pointer &result.a0 that the hook and the magic-syscalls
\* handler are given.
StoreA0_bad(result, w) == result
StoreA0(result, w) == IF w = NoWrite THEN result ELSE <<w[1], result[2]>>

\* handle_magic_syscalls(&desc, &result.a0): whether it handles the call
\* (returns 0) and what it stores in the result slot.
MagicOutcomes ==
    {[handled |-> FALSE, w |-> NoWrite],
     [handled |-> TRUE, w |-> NoWrite],
     [handled |-> TRUE, w |-> <<0>>]}

\* forward_to_kernel = true, overwritten by the hook's return value when a
\* hook is installed.
ForwardToKernel(installed, ret) == IF installed THEN ret ELSE 1

\* desc.args[0] & CLONE_VFORK
HasFlag(word, flag) == (word \div flag) % 2 = 1

\* ((struct clone_args *)desc.args[0])->stack, read from the caller's memory.
CloneArgsStack(ptr) == IF ptr = VforkFlags[1] THEN NewStack[1] ELSE 0

IsSigreturn_bad(nr) == FALSE
IsSigreturn(nr) == nr = SYS_rt_sigreturn

\* The two clone shapes intercept_routine hands back to the assembly entry.
IsNewStackClone_bad(nr, args) ==
    \/ nr = SYS_clone /\ args[2] # 0
    \/ nr = SYS_clone3 /\ CloneArgsStack(args[1]) # 0
IsNewStackClone(nr, args) ==
    \/ nr = SYS_clone /\ (args[2] # 0 \/ HasFlag(args[1], CLONE_VFORK))
    \/ nr = SYS_clone3 /\ CloneArgsStack(args[1]) # 0

IsClone(nr) == nr = SYS_clone \/ nr = SYS_clone3

\* The arguments intercept_routine passes to syscall_no_intercept.
KernelCall_bad(nr, args) ==
    [nr |-> nr, args |-> <<args[1], args[2], args[3], args[4], args[5], 0>>]
KernelCall(nr, args) == [nr |-> nr, args |-> args]

\* result = syscall_no_intercept(...): both registers are taken.
TakeKernelResult_keepa0(result, kret) == <<result[1], kret[2]>>
TakeKernelResult(result, kret) == kret

Ev(k, v) == [k |-> k, v |-> v]

\* intercept_routine_post_clone(a0): the events it produces.
PostCloneEvents_bad(a0, h) ==
    IF a0 # 0
    THEN IF h.child THEN <<Ev("clone_child", 0)>> ELSE <<>>
    ELSE IF h.parent THEN <<Ev("clone_parent", a0)>> ELSE <<>>
PostCloneEvents(a0, h) ==
    IF a0 = 0
    THEN IF h.child THEN <<Ev("clone_child", 0)>> ELSE <<>>
    ELSE IF h.parent THEN <<Ev("clone_parent", a0)>> ELSE <<>>

(***************************************************************************)
(* Process records.                                                        *)
(***************************************************************************)
NoA7 == [hi |-> 0, lo |-> 0]
NoArgs == <<0, 0, 0, 0, 0, 0>>

\* The per-invocation fields of a process that is outside intercept_routine.
IdleCall ==
    [a7 |-> NoA7, nr |-> 0, args |-> NoArgs, result |-> <<0, 0>>,
     fwd |-> 1, magic |-> FALSE, hooked |-> FALSE, hookRet |-> 1,
     hookWrote |-> NoWrite, kcalls |-> <<>>, kret |-> <<0, 0>>]

\* trace: the events of the current invocation, in order.  hist: the hook
\* invocations and returns in this process's context since it began.
NoProc ==
    [pc |-> "none", call |-> IdleCall, trace |-> <<>>, hist |-> <<>>,
     parent |-> 0, bornAt |-> 0]

FirstProc ==
    [pc |-> "idle", call |-> IdleCall, trace |-> <<>>, hist |-> <<>>,
     parent |-> 0, bornAt |-> 0]

HistKinds == {"hook", "clone_child", "clone_parent", "return"}

Log_front(p, evs) == evs \o proc[p].trace
Log(p, evs) == proc[p].trace \o evs

Hist(p, evs) == proc[p].hist \o SelectSeq(evs, LAMBDA e : e.k \in HistKinds)

\* The constructor intercept() before its first statement; the relocation
\* cursor is kept as an offset from asm_relocation_space.
CtorStart == [pc |-> "start", why |-> "", i |-> 1, k |-> 1]

MemStart == [reloc |-> "rx", text |-> <<>>]

StartupAt(pc) ==
    /\ patch_all_objs = FALSE
    /\ libc_found = FALSE
    /\ objs = <<>>
    /\ cur_asm_relocation_space = 0
    /\ ctor = [CtorStart EXCEPT !.pc = pc]
    /\ mem = MemStart

\* No ecall site is being planned and no patch has entered the assembly
\* entry point.
NoSite == [pc |-> "none"]
NoWrapper == [pc |-> "none"]
RuntimeIdle == site = NoSite /\ wrapper = NoWrapper

InitDispatch ==
    /\ hooks \in [hook : BOOLEAN, child : BOOLEAN, parent : BOOLEAN]
    /\ proc = [p \in ProcIds |-> IF p = 1 THEN FirstProc ELSE NoProc]
    /\ calls = 0
    /\ StartupAt("returned")
    /\ RuntimeIdle

\* A patched ecall site fires: the assembly entry calls intercept_routine.
Enter(p) ==
    /\ proc[p].pc = "idle"
    /\ calls < MaxCalls
    /\ \E a7 \in A7s, args \in ArgTuples :
         /\ args \in ArgsFor(a7.lo)
         /\ proc' = [proc EXCEPT ![p] =
                       [@ EXCEPT !.pc = "magic",
                                 !.call = [IdleCall EXCEPT !.a7 = a7,
                                                           !.nr = DescNr(a7),
                                                           !.args = args,
                                                           !.result = InitialResult(args)],
                                 !.trace = <<Ev("enter", 0)>>]]
    /\ calls' = calls + 1
    /\ UNCHANGED <<hooks, svars, rvars>>

\* handle_magic_syscalls(&desc, &result.a0): when it returns 0 the routine
\* returns at once; otherwise the UNKNOWN log entry is written.
Magic(p) ==
    /\ proc[p].pc = "magic"
    /\ \E m \in MagicOutcomes :
         IF m.handled
         THEN proc' = [proc EXCEPT ![p] =
                         [@ EXCEPT !.pc = "done",
                                   !.call.magic = TRUE,
                                   !.call.result = StoreA0(@, m.w),
                                   !.trace = Log(p, <<Ev("magic", 0)>>)]]
         ELSE proc' = [proc EXCEPT ![p] =
                         [@ EXCEPT !.pc = "hook",
                                   !.trace = Log(p, <<Ev("magic", 0),
                                                      Ev("log_unknown", 0)>>)]]
    /\ UNCHANGED <<hooks, calls, svars, rvars>>

\* What follows the hook up to the kernel call or the return.
AfterHook(c) ==
    IF IsSigreturn(c.nr)
    THEN [pc |-> "done", result |-> <<UNH_SYSCALL, UNH_GENERIC>>, evs |-> <<>>]
    ELSE IF c.fwd # 0
         THEN IF IsNewStackClone(c.nr, c.args)
              THEN [pc |-> "done", result |-> <<UNH_SYSCALL, UNH_CLONE>>, evs |-> <<>>]
              ELSE [pc |-> "kernel", result |-> c.result, evs |-> <<>>]
         ELSE [pc |-> "done", result |-> c.result,
               evs |-> <<Ev("log_known", c.result[1])>>]

\* The call of intercept_hook_point, when installed, and the branches after it.
Hook(p) ==
    /\ proc[p].pc = "hook"
    /\ \E ret \in HookRets, w \in HookWrites :
         /\ ~hooks.hook => (ret = 1 /\ w = NoWrite)
         /\ LET c0 == proc[p].call
                c1 == [c0 EXCEPT !.hooked = hooks.hook,
                                 !.hookRet = ret,
                                 !.hookWrote = w,
                                 !.fwd = ForwardToKernel(hooks.hook, ret),
                                 !.result = StoreA0(@, w)]
                nx == AfterHook(c1)
            IN proc' = [proc EXCEPT ![p] =
                          [@ EXCEPT !.pc = nx.pc,
                                    !.call = [c1 EXCEPT !.result = nx.result],
                                    !.trace = Log(p, (IF hooks.hook
                                                      THEN <<Ev("hook", 0)>>
                                                      ELSE <<>>) \o nx.evs),
                                    !.hist = Hist(p, (IF hooks.hook
                                                      THEN <<Ev("hook", 0)>>
                                                      ELSE <<>>) \o nx.evs)]]
    /\ UNCHANGED <<hooks, calls, svars, rvars>>

\* syscall_no_intercept for a call that is not a clone, then the KNOWN log.
Kernel(p) ==
    /\ proc[p].pc = "kernel"
    /\ ~IsClone(proc[p].call.nr)
    /\ \E kret \in KernelRets :
         LET c == proc[p].call
             res == TakeKernelResult(c.result, kret)
         IN proc' = [proc EXCEPT ![p] =
                       [@ EXCEPT !.pc = "done",
                                 !.call.kcalls = Append(@, KernelCall(c.nr, c.args)),
                                 !.call.kret = kret,
                                 !.call.result = res,
                                 !.trace = Log(p, <<Ev("kernel", 0),
                                                    Ev("log_known", res[1])>>),
                                 !.hist = Hist(p, <<Ev("kernel", 0),
                                                    Ev("log_known", res[1])>>)]]
    /\ UNCHANGED <<hooks, calls, svars, rvars>>

\* syscall_no_intercept for a same-stack clone that the kernel refuses.
KernelCloneFail(p) ==
    /\ proc[p].pc = "kernel"
    /\ IsClone(proc[p].call.nr)
    /\ LET c == proc[p].call
           kret == CloneError
       IN proc' = [proc EXCEPT ![p] =
                     [@ EXCEPT !.pc = "postclone",
                               !.call.kcalls = Append(@, KernelCall(c.nr, c.args)),
                               !.call.kret = kret,
                               !.call.result = TakeKernelResult(c.result, kret),
                               !.trace = Log(p, <<Ev("kernel", 0)>>),
                               !.hist = Hist(p, <<Ev("kernel", 0)>>)]]
    /\ UNCHANGED <<hooks, calls, svars, rvars>>

\* syscall_no_intercept for a same-stack clone that succeeds: the call returns
\* twice, with the child's TID in the parent and with 0 in the new process.
KernelCloneOk(p) ==
    /\ proc[p].pc = "kernel"
    /\ IsClone(proc[p].call.nr)
    /\ \E q \in ProcIds :
         /\ proc[q].pc = "none"
         /\ \A r \in ProcIds : r < q => proc[r].pc # "none"
         /\ LET c == proc[p].call
                kc == Append(c.kcalls, KernelCall(c.nr, c.args))
                pret == CloneInParent(q)
                cret == CloneInChild
                ptrace == Log(p, <<Ev("kernel", 0)>>)
            IN proc' = [proc EXCEPT
                          ![p] = [@ EXCEPT !.pc = "postclone",
                                           !.call.kcalls = kc,
                                           !.call.kret = pret,
                                           !.call.result = TakeKernelResult(c.result, pret),
                                           !.trace = ptrace],
                          ![q] = [pc |-> "postclone",
                                  call |-> [c EXCEPT !.kcalls = kc,
                                                     !.kret = cret,
                                                     !.result = TakeKernelResult(c.result, cret)],
                                  trace |-> <<>>,
                                  hist |-> <<>>,
                                  parent |-> p,
                                  bornAt |-> Len(proc[p].hist)]]
    /\ UNCHANGED <<hooks, calls, svars, rvars>>

\* intercept_routine_post_clone(result.a0), then the KNOWN log.
PostClone(p) ==
    /\ proc[p].pc = "postclone"
    /\ LET c == proc[p].call
       IN proc' = [proc EXCEPT ![p] =
                     [@ EXCEPT !.pc = "done",
                               !.trace = Log(p, PostCloneEvents(c.result[1], hooks)
                                                \o <<Ev("log_known", c.result[1])>>),
                               !.hist = Hist(p, PostCloneEvents(c.result[1], hooks)
                                                \o <<Ev("log_known", c.result[1])>>)]]
    /\ UNCHANGED <<hooks, calls, svars, rvars>>

\* intercept_routine returns result to the assembly entry.
Return(p) ==
    /\ proc[p].pc = "done"
    /\ proc' = [proc EXCEPT ![p] =
                  [@ EXCEPT !.pc = "idle",
                            !.call = IdleCall,
                            !.trace = <<>>,
                            !.hist = Hist(p, <<Ev("return", 0)>>)]]
    /\ UNCHANGED <<hooks, calls, svars, rvars>>

NextDispatch ==
    \E p \in ProcIds :
        \/ Enter(p)
        \/ Magic(p)
        \/ Hook(p)
        \/ Kernel(p)
        \/ KernelCloneFail(p)
        \/ KernelCloneOk(p)
        \/ PostClone(p)
        \/ Return(p)

SpecDispatch == InitDispatch /\ [][NextDispatch]_vars

(***************************************************************************)
(* The patch planner (patcher.c part of the source).                       *)
(*                                                                         *)
(* Sizes and tags of intercept.h and rv_encode.h, for a build with the     *)
(* compressed-instruction extension.                                       *)
(***************************************************************************)
SURROUNDING_INSTRS_NUM == 7
SYSCALL_IDX == 3

TYPE_GW == -2
TYPE_MID == -3
TYPE_SML == -4

REG_ZERO == 0
REG_RA == 1
REG_A5 == 15
REG_A7 == 17

ECALL_INS_SIZE == 4
JAL_INS_SIZE == 4
ADDI_INS_SIZE == 4
C_LI_INS_SIZE == 2
C_NOP_INS_SIZE == 2
MODIFY_SP_INS_SIZE == 2
STORE_LOAD_INS_SIZE == 2
JUMP_2GB_INS_SIZE == 8
TYPE_GW_SIZE == 2 * MODIFY_SP_INS_SIZE + 2 * STORE_LOAD_INS_SIZE + JUMP_2GB_INS_SIZE
TYPE_MID_SIZE == 2 * MODIFY_SP_INS_SIZE + 2 * STORE_LOAD_INS_SIZE + JAL_INS_SIZE
JAL_MID_REACH == 1048576

Abs(x) == IF x < 0 THEN -x ELSE x

(***************************************************************************)
(* Disassembled instructions: struct intercept_disasm_result.              *)
(***************************************************************************)
PlainInstr ==
    [address |-> 0, length |-> 4, is_set |-> TRUE, is_syscall |-> FALSE,
     is_abs_jump |-> FALSE, has_ip_relative_opr |-> FALSE, is_ra_used |-> FALSE,
     reg_set |-> 0, a7_set |-> -1, is_a7_modified |-> FALSE]

\* The instruction kinds the scanned texts are made of.
InstrOf(kind) ==
    CASE kind = "add" -> PlainInstr
      [] kind = "c_add" -> [PlainInstr EXCEPT !.length = 2]
      [] kind = "ecall" -> [PlainInstr EXCEPT !.is_syscall = TRUE]
      [] kind = "li_a7_write" ->
            [PlainInstr EXCEPT !.a7_set = SYS_write, !.reg_set = REG_A7]
      [] kind = "c_li_a7_ioctl" ->
            [PlainInstr EXCEPT !.length = 2, !.a7_set = 29, !.reg_set = REG_A7]
      [] kind = "mv_a7" ->
            [PlainInstr EXCEPT !.is_a7_modified = TRUE, !.reg_set = REG_A7]
      [] kind = "auipc" -> [PlainInstr EXCEPT !.has_ip_relative_opr = TRUE]
      [] kind = "jr" -> [PlainInstr EXCEPT !.is_abs_jump = TRUE]
      [] kind = "c_ret" ->
            [PlainInstr EXCEPT !.length = 2, !.is_abs_jump = TRUE,
                               !.is_ra_used = TRUE]
      [] kind = "ld_ra" -> [PlainInstr EXCEPT !.is_ra_used = TRUE]
      [] kind = "mv_a5" -> [PlainInstr EXCEPT !.reg_set = REG_A5]
      [] kind = "far" ->
            [PlainInstr EXCEPT !.length = JAL_MID_REACH, !.has_ip_relative_opr = TRUE]

\* A window slot outside the text: a zeroed struct.
UnsetInstr == [PlainInstr EXCEPT !.length = 0, !.is_set = FALSE]

Idx == 0..(SURROUNDING_INSTRS_NUM - 1)

RECURSIVE SumLen(_, _, _)
\* The byte length of instrs[from..to].
SumLen(instrs, from, to) ==
    IF from > to THEN 0 ELSE instrs[from].length + SumLen(instrs, from + 1, to)

(***************************************************************************)
(* The scanner: find_syscalls over the text of one object.                 *)
(***************************************************************************)
NULL == <<>>

\* The texts are made of these runs of instructions; "far" stands for a run of
\* JAL_MID_REACH bytes without an ecall.
GwBlock == <<"jr", "add", "add", "add", "ecall", "auipc">>
MidBlock == <<"jr", "add", "add", "ecall", "auipc">>
SmlBlock == <<"jr", "c_li_a7_ioctl", "ecall", "auipc">>
BadBlock == <<"jr", "ecall", "auipc">>
FarBlock == <<"far">>
Blocks == {GwBlock, MidBlock, SmlBlock, BadBlock, FarBlock}

RECURSIVE TextSize(_, _)
\* The byte length of the first n instructions of a text.
TextSize(text, n) ==
    IF n = 0 THEN 0 ELSE TextSize(text, n - 1) + InstrOf(text[n]).length

Disasm(text, text_start) ==
    [j \in 1..Len(text) |->
        [InstrOf(text[j]) EXCEPT !.address = text_start + TextSize(text, j - 1)]]

NewPatch(ins, j) ==
    [syscall_addr |-> ins[j].address,
     surrounding_instrs |->
        [i \in Idx |-> IF j - SYSCALL_IDX + i \in DOMAIN ins
                       THEN ins[j - SYSCALL_IDX + i] ELSE UnsetInstr],
     syscall_num |-> -1, syscall_idx |-> 0, return_register |-> 0,
     dst_jmp_patch |-> 0, return_address |-> 0, patch_size_bytes |-> 0,
     relocation_address |-> 0,
     is_ra_used_before |-> FALSE, is_ra_used_after |-> FALSE,
     start_with_c_nop |-> FALSE, end_with_c_nop |-> FALSE]

\* One patch_desc per ecall of the text, in address order.
find_syscalls(text, text_start) ==
    LET ins == Disasm(text, text_start)
        ecalls == {j \in DOMAIN ins : ins[j].is_syscall}
        Nth(n) == CHOOSE j \in ecalls : Cardinality({e \in ecalls : e <= j}) = n
    IN [n \in 1..Cardinality(ecalls) |-> NewPatch(ins, Nth(n))]

(***************************************************************************)
(* Stage A: window trimming.                                               *)
(***************************************************************************)
is_copiable_before_syscall(ins) ==
    IF ~ins.is_set
    THEN FALSE
    ELSE ~(ins.has_ip_relative_opr \/ ins.is_abs_jump \/ ins.is_syscall)

is_copiable_after_syscall(ins) ==
    IF ~ins.is_set
    THEN FALSE
    ELSE ~(ins.has_ip_relative_opr \/ ins.is_syscall)

is_SML_patchable(patch, patchable_size) ==
    IF patch.syscall_num < 0 THEN FALSE
    ELSE IF patchable_size <= JAL_INS_SIZE THEN FALSE
    ELSE IF /\ patch.return_register = 0
            /\ patchable_size = JAL_INS_SIZE + C_LI_INS_SIZE
            /\ patch.syscall_num > 31
         THEN FALSE
         ELSE TRUE

\* The test each of the three loops of check_two_ecalls makes on the size
\* accumulated so far.
LoopTest(patch, size, loop) ==
    CASE loop = "forced_mid" -> size >= TYPE_MID_SIZE
      [] loop = "before_first" -> size >= TYPE_MID_SIZE \/ is_SML_patchable(patch, size)
      [] loop = "last_resort" -> is_SML_patchable(patch, size)

\* The first i in from..to at which the loop's test holds of the size of
\* instrs[from..i], or -1.
FirstFit(patch, from, to, loop) ==
    LET fits == {i \in from..to :
                    LoopTest(patch, SumLen(patch.surrounding_instrs, from, i), loop)}
    IN IF fits = {} THEN -1 ELSE CHOOSE i \in fits : \A j \in fits : i <= j

\* The outcome of check_two_ecalls from the outcomes of its three loops.
TwoEcallsEnd_firstbest(forced, first, last, syscall_idx, start_idx) ==
    IF first # -1 THEN syscall_idx + 1
    ELSE IF forced # -1 THEN forced + 1
    ELSE IF last # -1 THEN last + 1
    ELSE start_idx

TwoEcallsEnd(forced, first, last, syscall_idx, start_idx) ==
    IF forced # -1 THEN forced + 1
    ELSE IF first # -1 THEN syscall_idx + 1
    ELSE IF last # -1 THEN last + 1
    ELSE start_idx

check_two_ecalls(patch, syscall_idx, start_idx, second_ecall_idx) ==
    TwoEcallsEnd(IF patch.syscall_num < 0
                 THEN FirstFit(patch, start_idx, second_ecall_idx - 1, "forced_mid")
                 ELSE -1,
                 FirstFit(patch, start_idx, syscall_idx, "before_first"),
                 FirstFit(patch, start_idx, second_ecall_idx - 1, "last_resort"),
                 syscall_idx, start_idx)

has_jump(jumps, address) == address \in jumps

\* One iteration of the loop over the window for an instruction before the
\* ecall: st holds patch_start_idx, patch_end_idx and the syscall number
\* recovered so far.
PrefixStep_keepnum(instrs, jumps, i, st) ==
    LET num1 == IF instrs[i].a7_set > -1 THEN instrs[i].a7_set
                ELSE IF instrs[i].is_a7_modified THEN -1
                ELSE st.num
    IN IF has_jump(jumps, instrs[i + 1].address)
       THEN [st EXCEPT !.start = i + 1, !.num = num1]
       ELSE IF ~is_copiable_before_syscall(instrs[i])
       THEN [st EXCEPT !.start = i + 1, !.num = num1]
       ELSE [st EXCEPT !.num = num1]

PrefixStep(instrs, jumps, i, st) ==
    LET num1 == IF instrs[i].a7_set > -1 THEN instrs[i].a7_set
                ELSE IF instrs[i].is_a7_modified THEN -1
                ELSE st.num
    IN IF has_jump(jumps, instrs[i + 1].address)
       THEN [st EXCEPT !.start = i + 1, !.num = -1]
       ELSE IF ~is_copiable_before_syscall(instrs[i])
       THEN [st EXCEPT !.start = i + 1, !.num = num1]
       ELSE [st EXCEPT !.num = num1]

\* The loop over the window from index i on.
RECURSIVE TrimLoop(_, _, _, _)
TrimLoop(patch, jumps, i, st) ==
    LET instrs == patch.surrounding_instrs
    IN IF i >= SURROUNDING_INSTRS_NUM THEN st
       ELSE IF i < SYSCALL_IDX
       THEN TrimLoop(patch, jumps, i + 1, PrefixStep(instrs, jumps, i, st))
       ELSE IF i > SYSCALL_IDX
       THEN IF instrs[i].is_syscall
            THEN [st EXCEPT !.end =
                     check_two_ecalls([patch EXCEPT !.syscall_num = st.num],
                                      SYSCALL_IDX, st.start, i)]
            ELSE IF \/ ~is_copiable_after_syscall(instrs[i])
                    \/ has_jump(jumps, instrs[i].address)
            THEN [st EXCEPT !.end = i]
            ELSE TrimLoop(patch, jumps, i + 1, st)
       ELSE TrimLoop(patch, jumps, i + 1, st)

\* The end of check_surrounding_instructions: the indexes are fixed, the
\* usable instructions are shifted to the left (memmove) and measured.
ShiftWindow(patch1, st) ==
    LET old == patch1.surrounding_instrs
        syscall_idx == SYSCALL_IDX - st.start
        instrs_num == st.end - st.start
        moved == [i \in Idx |-> IF i < instrs_num THEN old[st.start + i] ELSE old[i]]
    IN IF instrs_num < 1
       THEN [patch |-> [patch1 EXCEPT !.syscall_num = st.num,
                                      !.syscall_idx = syscall_idx],
             length |-> 0]
       ELSE [patch |->
                [patch1 EXCEPT
                    !.syscall_num = st.num,
                    !.syscall_idx = syscall_idx,
                    !.surrounding_instrs = moved,
                    !.is_ra_used_before =
                        @ \/ \E i \in Idx : /\ i < instrs_num
                                            /\ i < syscall_idx
                                            /\ moved[i].is_ra_used,
                    !.is_ra_used_after =
                        @ \/ \E i \in Idx : /\ i < instrs_num
                                            /\ i >= syscall_idx
                                            /\ moved[i].is_ra_used],
             length |-> SumLen(moved, 0, instrs_num - 1)]

\* The start of check_surrounding_instructions: the return register.
WithReturnRegister(patch0) ==
    IF patch0.surrounding_instrs[SYSCALL_IDX + 1].reg_set # 0
    THEN [patch0 EXCEPT !.return_register =
                           patch0.surrounding_instrs[SYSCALL_IDX + 1].reg_set]
    ELSE patch0

TrimWindow(jumps, patch1) ==
    ShiftWindow(patch1,
                TrimLoop(patch1, jumps, 0,
                         [start |-> 0, end |-> SURROUNDING_INSTRS_NUM,
                          num |-> patch1.syscall_num]))

\* check_surrounding_instructions: the patch with its trimmed window, and the
\* patchable size it returns.
check_surrounding_instructions(jumps, patch0) ==
    TrimWindow(jumps, WithReturnRegister(patch0))

(***************************************************************************)
(* Stage C: placement.                                                     *)
(***************************************************************************)
\* The loop of check_patch_alignment, from index i on, with its break.
RECURSIVE AlignLoop(_, _, _, _, _)
AlignLoop(instrs, start_addr, end_addr, i, flags) ==
    IF i >= SURROUNDING_INSTRS_NUM THEN flags
    ELSE IF start_addr = instrs[i].address
    THEN AlignLoop(instrs, start_addr, end_addr, i + 1, [flags EXCEPT !.start = FALSE])
    ELSE IF end_addr = instrs[i].address
    THEN AlignLoop(instrs, start_addr, end_addr, i + 1, [flags EXCEPT !.end = FALSE])
    ELSE IF end_addr < instrs[i].address
    THEN flags
    ELSE AlignLoop(instrs, start_addr, end_addr, i + 1, flags)

SetAlignment(patch, flags) ==
    [patch EXCEPT !.start_with_c_nop = flags.start, !.end_with_c_nop = flags.end]

check_patch_alignment(patch, start_addr, required_size) ==
    SetAlignment(patch,
                 AlignLoop(patch.surrounding_instrs, start_addr,
                           start_addr + required_size, 0,
                           [start |-> TRUE, end |-> TRUE]))

\* position_patch after its first loop.
PlaceWith(patch, up_to_ecall_size) ==
    LET instrs == patch.surrounding_instrs
        at_ecall == patch.syscall_addr + ECALL_INS_SIZE
                    - MODIFY_SP_INS_SIZE - STORE_LOAD_INS_SIZE
        sml_size == IF patch.return_register # 0 THEN JAL_INS_SIZE
                    ELSE IF patch.syscall_num < 32 THEN JAL_INS_SIZE + C_LI_INS_SIZE
                    ELSE JAL_INS_SIZE + ADDI_INS_SIZE
        required_size ==
            CASE patch.syscall_num = TYPE_GW -> TYPE_GW_SIZE
              [] patch.syscall_num = TYPE_MID -> TYPE_MID_SIZE
              [] OTHER -> sml_size
        return_address ==
            CASE patch.syscall_num = TYPE_GW ->
                    IF up_to_ecall_size >= required_size
                    THEN at_ecall
                    ELSE instrs[0].address + MODIFY_SP_INS_SIZE
                         + STORE_LOAD_INS_SIZE + JUMP_2GB_INS_SIZE
              [] patch.syscall_num = TYPE_MID ->
                    IF up_to_ecall_size >= required_size
                    THEN at_ecall
                    ELSE instrs[0].address + MODIFY_SP_INS_SIZE
                         + STORE_LOAD_INS_SIZE + JAL_INS_SIZE
              [] OTHER ->
                    IF patch.return_register # 0
                    THEN patch.syscall_addr + JAL_INS_SIZE
                    ELSE IF up_to_ecall_size >= required_size
                    THEN patch.syscall_addr + ECALL_INS_SIZE
                         - required_size + JAL_INS_SIZE
                    ELSE instrs[0].address + JAL_INS_SIZE
        start_addr ==
            CASE patch.syscall_num = TYPE_GW ->
                    return_address - JUMP_2GB_INS_SIZE
                    - STORE_LOAD_INS_SIZE - MODIFY_SP_INS_SIZE
              [] patch.syscall_num = TYPE_MID ->
                    return_address - JAL_INS_SIZE
                    - STORE_LOAD_INS_SIZE - MODIFY_SP_INS_SIZE
              [] OTHER -> return_address - JAL_INS_SIZE
    IN check_patch_alignment(
           [patch EXCEPT !.return_address = return_address,
                         !.dst_jmp_patch = start_addr,
                         !.patch_size_bytes = required_size],
           start_addr, required_size)

\* position_patch keying every patch by the page of its window.
position_patch_pagekey(patch) ==
    [PlaceWith(patch, SumLen(patch.surrounding_instrs, 0, patch.syscall_idx))
        EXCEPT !.return_address =
            (patch.syscall_addr \div JAL_MID_REACH) * JAL_MID_REACH]

position_patch(patch) ==
    PlaceWith(patch, SumLen(patch.surrounding_instrs, 0, patch.syscall_idx))

\* The first byte and the byte after the last byte a patch overwrites, with
\* its compressed-NOP padding (align_start_addr_and_size).
PatchFirst(patch) ==
    patch.dst_jmp_patch - (IF patch.start_with_c_nop THEN C_NOP_INS_SIZE ELSE 0)
PatchSize(patch) ==
    patch.patch_size_bytes
    + (IF patch.start_with_c_nop THEN C_NOP_INS_SIZE ELSE 0)
    + (IF patch.end_with_c_nop THEN C_NOP_INS_SIZE ELSE 0)

(***************************************************************************)
(* The relocation writer: the bytes relocate_instrs emits for one patch.   *)
(***************************************************************************)
RA_SWAP_SIZE == 8
C_JALR_SIZE == 2

FinalizeSize(patch) ==
    (IF patch.return_register # REG_RA THEN STORE_LOAD_INS_SIZE ELSE 0)
    + (CASE patch.syscall_num = TYPE_GW -> STORE_LOAD_INS_SIZE
         [] patch.syscall_num = TYPE_MID -> 3 * STORE_LOAD_INS_SIZE
         [] OTHER -> STORE_LOAD_INS_SIZE + MODIFY_SP_INS_SIZE)
    + C_JALR_SIZE

RelocBlockSize(patch) ==
    LET before_ecall_size == patch.syscall_addr - PatchFirst(patch)
        after_ecall_size == PatchSize(patch) - before_ecall_size - ECALL_INS_SIZE
    IN (IF patch.is_ra_used_before THEN 2 * RA_SWAP_SIZE ELSE 0)
       + before_ecall_size
       + C_JALR_SIZE
       + (IF after_ecall_size > 0
          THEN after_ecall_size
               + (IF patch.is_ra_used_after THEN 2 * RA_SWAP_SIZE ELSE 0)
          ELSE 0)
       + C_JALR_SIZE
       + FinalizeSize(patch)

relocate_instrs(patch, dst) ==
    [patch |-> [patch EXCEPT !.relocation_address = dst],
     dst |-> dst + RelocBlockSize(patch)]

(***************************************************************************)
(* Stage B and create_patch.                                               *)
(***************************************************************************)
\* The class and return register create_patch gives a trimmed window of the
\* given length; ok is FALSE where it calls xabort.
Classify(patch, length) ==
    IF length >= TYPE_GW_SIZE
    THEN [ok |-> TRUE,
          patch |-> [patch EXCEPT !.syscall_num = TYPE_GW, !.return_register = REG_RA]]
    ELSE IF length >= TYPE_MID_SIZE
    THEN [ok |-> TRUE,
          patch |-> [patch EXCEPT !.syscall_num = TYPE_MID, !.return_register = REG_RA]]
    ELSE IF ~is_SML_patchable(patch, length)
    THEN [ok |-> FALSE, patch |-> patch]
    ELSE [ok |-> TRUE, patch |-> patch]

\* One iteration of the first loop of create_patch, after the window is
\* trimmed and classified: the patch is positioned, the end of its patch is
\* the jump target to mark, and its instructions are relocated to dst.
PlacePatch(placed, ok, dst) ==
    [ok |-> ok,
     patch |-> [relocate_instrs(placed, dst).patch EXCEPT !.surrounding_instrs = NULL],
     last_instr_addr |-> placed.dst_jmp_patch + placed.patch_size_bytes
                         + (IF placed.end_with_c_nop THEN C_NOP_INS_SIZE ELSE 0),
     dst |-> relocate_instrs(placed, dst).dst]

PlanClassified(cls, dst) == PlacePatch(position_patch(cls.patch), cls.ok, dst)

PlanTrimmed(trimmed, dst) ==
    PlanClassified(Classify(trimmed.patch, trimmed.length), dst)

PlanPatch(jumps, patch, dst) ==
    PlanTrimmed(check_surrounding_instructions(jumps, patch), dst)

\* The first loop of create_patch from patch k on; ok is FALSE when a patch
\* made the process exit.
RECURSIVE PlanFrom(_, _, _, _)
PlanFrom(items, k, jumps, dst) ==
    IF k > Len(items)
    THEN [ok |-> TRUE, items |-> items, jumps |-> jumps, dst |-> dst]
    ELSE LET one == PlanPatch(jumps, items[k], dst)
         IN IF ~one.ok
            THEN [ok |-> FALSE, items |-> items, jumps |-> jumps, dst |-> dst]
            ELSE PlanFrom([items EXCEPT ![k] = one.patch], k + 1,
                          jumps \cup {one.last_instr_addr}, one.dst)

\* The GW patches of desc within reach of jump_from, in patch order.
find_GW(items, patch) ==
    LET jump_from == IF patch.syscall_num = TYPE_MID
                     THEN patch.return_address - JAL_INS_SIZE + MODIFY_SP_INS_SIZE
                     ELSE patch.return_address - JAL_INS_SIZE
        near == {g \in DOMAIN items :
                    /\ items[g].syscall_num = TYPE_GW
                    /\ Abs(items[g].dst_jmp_patch - jump_from) < JAL_MID_REACH}
        dst == IF near = {}
               THEN patch.dst_jmp_patch
               ELSE items[CHOOSE g \in near : \A h \in near : g <= h].dst_jmp_patch
    IN [patch EXCEPT !.dst_jmp_patch =
           IF patch.syscall_num = TYPE_MID THEN dst + MODIFY_SP_INS_SIZE ELSE dst]

\* The second loop of create_patch over the outcome of the first.
ResolveGateways(desc, planned, dst) ==
    IF planned.ok
    THEN [ok |-> TRUE,
          desc |-> [desc EXCEPT
                      !.items = [k \in DOMAIN planned.items |->
                                    IF planned.items[k].syscall_num # TYPE_GW
                                    THEN find_GW(planned.items, planned.items[k])
                                    ELSE planned.items[k]],
                      !.jumps = planned.jumps],
          dst |-> planned.dst]
    ELSE [ok |-> FALSE, desc |-> desc, dst |-> dst]

create_patch_noexit(desc, dst) ==
    ResolveGateways(desc,
                    [PlanFrom(desc.items, 1, desc.jumps, dst) EXCEPT !.ok = TRUE], dst)
create_patch(desc, dst) ==
    ResolveGateways(desc, PlanFrom(desc.items, 1, desc.jumps, dst), dst)

(***************************************************************************)
(* The startup constructor intercept() and the activator.                  *)
(***************************************************************************)
MaxObjs == 2
MaxBlocks == 3

\* Where the n-th selected object is loaded, and the size of the relocation
\* space.
ObjBase(n) == n * 8 * JAL_MID_REACH
asm_relocation_space_size == 2 * TYPE_GW_SIZE

RECURSIVE Flatten(_)
Flatten(blocks) ==
    IF blocks = <<>> THEN <<>> ELSE Head(blocks) \o Flatten(Tail(blocks))

RECURSIVE TotalBlocks(_)
TotalBlocks(descs) ==
    IF descs = <<>> THEN 0 ELSE Len(Head(descs).blocks) + TotalBlocks(Tail(descs))

\* allocate_next_obj_desc and the fields find_syscalls fills in for a text.
ObjDesc(blocks, text_start) ==
    [blocks |-> blocks,
     text_start |-> text_start,
     text_end |-> text_start + TextSize(Flatten(blocks), Len(Flatten(blocks))),
     items |-> find_syscalls(Flatten(blocks), text_start),
     jumps |-> {},
     uses_trampoline |-> FALSE]

ObjKinds == {"vdso", "self", "libcapstone", "libc", "libpthread", "other"}

should_patch_object(kind, all) ==
    IF kind = "vdso" THEN FALSE
    ELSE IF kind = "self" THEN FALSE
    ELSE IF kind = "libcapstone" THEN FALSE
    ELSE IF kind = "libc" THEN TRUE
    ELSE IF all THEN TRUE
    ELSE IF kind = "libpthread" THEN TRUE
    ELSE FALSE

is_asm_relocation_space_full(cur) == cur > asm_relocation_space_size

write_enable_asm_relocation_space_bad(enable_write) == "rwx"
write_enable_asm_relocation_space(enable_write) ==
    IF enable_write THEN "rwx" ELSE "rx"

\* allocate_trampoline decides whether the object is too far from the entry
\* point for a direct jump.
allocate_trampoline(desc, far_from_entry) ==
    [desc EXCEPT !.uses_trampoline = far_from_entry]

\* The copy function activate_patches picks for a patch.
Copier(patch) ==
    CASE patch.syscall_num = TYPE_GW -> "copy_GW"
      [] patch.syscall_num = TYPE_MID -> "copy_MID"
      [] OTHER -> "copy_SML"

xabort(msg) == ctor' = [ctor EXCEPT !.pc = "exited", !.why = msg]

InitStartup ==
    /\ hooks = [hook |-> FALSE, child |-> FALSE, parent |-> FALSE]
    /\ proc = [p \in ProcIds |-> IF p = 1 THEN FirstProc ELSE NoProc]
    /\ calls = 0
    /\ StartupAt("start")
    /\ RuntimeIdle

\* syscall_hook_in_process_allowed() is false: the constructor returns.
NotAllowed ==
    /\ ctor.pc = "start"
    /\ ctor' = [ctor EXCEPT !.pc = "returned"]
    /\ UNCHANGED <<dvars, rvars, patch_all_objs, libc_found, objs,
                   cur_asm_relocation_space, mem>>

\* The environment is read.
Setup ==
    /\ ctor.pc = "start"
    /\ \E all \in BOOLEAN : patch_all_objs' = all
    /\ ctor' = [ctor EXCEPT !.pc = "scan"]
    /\ UNCHANGED <<dvars, rvars, libc_found, objs, cur_asm_relocation_space, mem>>

\* dl_iterate_phdr calls analyze_object on one more loaded object.
AnalyzeObject ==
    /\ ctor.pc = "scan"
    /\ Len(objs) < MaxObjs
    /\ \E kind \in ObjKinds :
         /\ libc_found' = (libc_found \/ kind = "libc")
         /\ IF should_patch_object(kind, patch_all_objs)
            THEN /\ objs' = Append(objs, ObjDesc(<<>>, ObjBase(Len(objs) + 1)))
                 /\ mem' = [mem EXCEPT !.text =
                              Append(@, [prot |-> "rx", trampoline |-> FALSE,
                                         written |-> {}])]
            ELSE UNCHANGED <<objs, mem>>
    /\ UNCHANGED <<dvars, rvars, patch_all_objs, cur_asm_relocation_space, ctor>>

\* find_syscalls disassembles one more run of the object's text.
FindSyscalls ==
    /\ ctor.pc = "scan"
    /\ Len(objs) > 0
    /\ TotalBlocks(objs) < MaxBlocks
    /\ \E b \in Blocks :
         objs' = [objs EXCEPT ![Len(objs)] =
                    ObjDesc(Append(@.blocks, b), @.text_start)]
    /\ UNCHANGED <<dvars, rvars, patch_all_objs, libc_found,
                   cur_asm_relocation_space, ctor, mem>>

\* dl_iterate_phdr returns; the relocation space is made writable.
ScanDone ==
    /\ ctor.pc = "scan"
    /\ IF ~libc_found
       THEN /\ xabort("libc not found")
            /\ UNCHANGED mem
       ELSE /\ ctor' = [ctor EXCEPT !.pc = "plan", !.i = 1]
            /\ mem' = [mem EXCEPT !.reloc = write_enable_asm_relocation_space(TRUE)]
    /\ UNCHANGED <<dvars, rvars, patch_all_objs, libc_found, objs, cur_asm_relocation_space>>

\* One iteration of the first loop of intercept().
PlanObject ==
    /\ ctor.pc = "plan"
    /\ ctor.i <= Len(objs)
    /\ \E far_from_entry \in BOOLEAN :
       LET desc == objs[ctor.i]
           made == create_patch(allocate_trampoline(desc, far_from_entry),
                                cur_asm_relocation_space)
       IN IF Len(desc.items) = 0
          THEN /\ ctor' = [ctor EXCEPT !.i = @ + 1]
               /\ UNCHANGED <<objs, cur_asm_relocation_space>>
          ELSE IF is_asm_relocation_space_full(cur_asm_relocation_space)
          THEN /\ xabort("not enough space in relocation space")
               /\ UNCHANGED <<objs, cur_asm_relocation_space>>
          ELSE IF ~made.ok
          THEN /\ xabort("not enough space for patching around syscall")
               /\ UNCHANGED <<objs, cur_asm_relocation_space>>
          ELSE /\ objs' = [objs EXCEPT ![ctor.i] = made.desc]
               /\ cur_asm_relocation_space' = made.dst
               /\ ctor' = [ctor EXCEPT !.i = @ + 1]
    /\ UNCHANGED <<dvars, rvars, patch_all_objs, libc_found, mem>>

\* The first loop is over; the relocation space is made read-only.
PlanDone ==
    /\ ctor.pc = "plan"
    /\ ctor.i > Len(objs)
    /\ mem' = [mem EXCEPT !.reloc = write_enable_asm_relocation_space(FALSE)]
    /\ ctor' = [ctor EXCEPT !.pc = "activate", !.i = 1]
    /\ UNCHANGED <<dvars, rvars, patch_all_objs, libc_found, objs, cur_asm_relocation_space>>

\* activate_patches up to its loop: the trampoline and the first mprotect.
ActivateBegin ==
    /\ ctor.pc = "activate"
    /\ ctor.i <= Len(objs)
    /\ LET desc == objs[ctor.i]
       IN IF Len(desc.items) = 0
          THEN /\ ctor' = [ctor EXCEPT !.i = @ + 1]
               /\ UNCHANGED mem
          ELSE /\ ctor' = [ctor EXCEPT !.pc = "write", !.k = 1]
               /\ mem' = [mem EXCEPT !.text[ctor.i] =
                            [@ EXCEPT !.trampoline = desc.uses_trampoline,
                                      !.prot = "rwx"]]
    /\ UNCHANGED <<dvars, rvars, patch_all_objs, libc_found, objs, cur_asm_relocation_space>>

\* One iteration of the loop of activate_patches.
ActivateWrite ==
    /\ ctor.pc = "write"
    /\ ctor.k <= Len(objs[ctor.i].items)
    /\ LET desc == objs[ctor.i]
           patch == desc.items[ctor.k]
       IN IF \/ patch.dst_jmp_patch < desc.text_start
             \/ patch.dst_jmp_patch > desc.text_end
          THEN /\ xabort("dst_jmp_patch outside text")
               /\ UNCHANGED mem
          ELSE /\ ctor' = [ctor EXCEPT !.k = @ + 1]
               /\ mem' = [mem EXCEPT !.text[ctor.i].written =
                            @ \cup {<<ctor.k, Copier(patch)>>}]
    /\ UNCHANGED <<dvars, rvars, patch_all_objs, libc_found, objs, cur_asm_relocation_space>>

\* activate_patches after its loop: the second mprotect.
ActivateEnd ==
    /\ ctor.pc = "write"
    /\ ctor.k > Len(objs[ctor.i].items)
    /\ mem' = [mem EXCEPT !.text[ctor.i].prot = "rx"]
    /\ ctor' = [ctor EXCEPT !.pc = "activate", !.i = @ + 1]
    /\ UNCHANGED <<dvars, rvars, patch_all_objs, libc_found, objs, cur_asm_relocation_space>>

\* The second loop is over: the constructor returns.
Finish ==
    /\ ctor.pc = "activate"
    /\ ctor.i > Len(objs)
    /\ ctor' = [ctor EXCEPT !.pc = "returned"]
    /\ UNCHANGED <<dvars, rvars, patch_all_objs, libc_found, objs,
                   cur_asm_relocation_space, mem>>

NextStartup ==
    \/ NotAllowed
    \/ Setup
    \/ AnalyzeObject
    \/ FindSyscalls
    \/ ScanDone
    \/ PlanObject
    \/ PlanDone
    \/ ActivateBegin
    \/ ActivateWrite
    \/ ActivateEnd
    \/ Finish

SpecStartup == InitStartup /\ [][NextStartup]_vars

(***************************************************************************)
(* The constructor on texts whose ecall sites lie close to each other and  *)
(* close to the end of the text.                                           *)
(***************************************************************************)
NearBlock == <<"jr", "ecall", "add", "add", "add">>
PreBlock == <<"add", "add", "add", "ecall", "auipc">>
TailBlock == <<"jr", "add", "add", "ecall">>
LayoutBlocks == {NearBlock, PreBlock, TailBlock, SmlBlock}

\* find_syscalls disassembles one more run of such a text.
FindSyscallsNear ==
    /\ ctor.pc = "scan"
    /\ Len(objs) > 0
    /\ TotalBlocks(objs) < MaxBlocks
    /\ \E b \in LayoutBlocks :
         objs' = [objs EXCEPT ![Len(objs)] =
                    ObjDesc(Append(@.blocks, b), @.text_start)]
    /\ UNCHANGED <<dvars, rvars, patch_all_objs, libc_found,
                   cur_asm_relocation_space, ctor, mem>>

NextLayout ==
    \/ NotAllowed
    \/ Setup
    \/ AnalyzeObject
    \/ FindSyscallsNear
    \/ ScanDone
    \/ PlanObject
    \/ PlanDone
    \/ ActivateBegin
    \/ ActivateWrite
    \/ ActivateEnd
    \/ Finish

SpecLayout == InitStartup /\ [][NextLayout]_vars

\* The bytes copy_GW, copy_MID and copy_SML overwrite for a patch: where the
\* copy starts and how many bytes it writes.
CopyStart(patch) ==
    (CASE patch.syscall_num = TYPE_GW -> patch.dst_jmp_patch
       [] patch.syscall_num = TYPE_MID ->
             patch.return_address - JAL_INS_SIZE - STORE_LOAD_INS_SIZE
             - MODIFY_SP_INS_SIZE
       [] OTHER -> patch.return_address - JAL_INS_SIZE)
    - (IF patch.start_with_c_nop THEN C_NOP_INS_SIZE ELSE 0)

CopySize(patch) ==
    (IF patch.start_with_c_nop THEN C_NOP_INS_SIZE ELSE 0)
    + (CASE patch.syscall_num = TYPE_GW ->
               2 * MODIFY_SP_INS_SIZE + 2 * STORE_LOAD_INS_SIZE + JUMP_2GB_INS_SIZE
         [] patch.syscall_num = TYPE_MID ->
               2 * MODIFY_SP_INS_SIZE + 2 * STORE_LOAD_INS_SIZE + JAL_INS_SIZE
         [] OTHER ->
               JAL_INS_SIZE
               + (IF patch.return_register # 0 THEN 0
                  ELSE IF patch.syscall_num < 32 THEN C_LI_INS_SIZE
                  ELSE ADDI_INS_SIZE))
    + (IF patch.end_with_c_nop THEN C_NOP_INS_SIZE ELSE 0)

(***************************************************************************)
(* detect_cur_patch: the patch that fired, found by its return address.    *)
(***************************************************************************)
\* sizeof(ret_addrs), the bound of the outer loop, and the three elements
\* the array has.
RET_ADDRS_SIZEOF == 3 * 8
RET_ADDRS_LEN == 3

\* The value the outer loop reads at ra_idx: an element of the array, or for
\* an index past its end whatever the stack holds there.
RetAddrAt(MID_ret_addr, SML_ret_addr, GW_ret_addr, beyond, ra_idx) ==
    CASE ra_idx = 0 -> MID_ret_addr
      [] ra_idx = 1 -> SML_ret_addr
      [] ra_idx = 2 -> GW_ret_addr
      [] OTHER -> beyond

\* The switch on the class of a patch whose return address matched.
SlotAccepts_any(syscall_num, ra_idx) == TRUE

SlotAccepts(syscall_num, ra_idx) ==
    CASE syscall_num = TYPE_GW -> ra_idx = 2
      [] syscall_num = TYPE_MID -> ra_idx = 0
      [] OTHER -> ra_idx = 1

\* Every patch of every object, as <<o, p>>.
AllPatches(all_objs) ==
    UNION {{<<o, p>> : p \in DOMAIN all_objs[o].items} : o \in DOMAIN all_objs}

\* The patches the two inner loops stop at for the value looked up.
Accepted(all_objs, patches, value, ra_idx) ==
    {op \in patches :
        /\ all_objs[op[1]].items[op[2]].return_address = value
        /\ SlotAccepts(all_objs[op[1]].items[op[2]].syscall_num, ra_idx)}

\* The first of them in loop order.
FirstOf(found) ==
    CHOOSE op \in found :
        \A other \in found :
            op[1] < other[1] \/ (op[1] = other[1] /\ op[2] <= other[2])

\* The pair the function returns for the patch it stopped at.
WrapperRet_key(patch) ==
    [a0 |-> patch.syscall_num, a1 |-> patch.return_address]

WrapperRet(patch) ==
    [a0 |-> patch.syscall_num, a1 |-> patch.relocation_address]

\* The loops from ra_idx on: the patch at which they jump to
\* ret_to_irq_entry, or the final ra_idx.
RECURSIVE DetectLoop(_, _, _, _, _)
DetectLoop(all_objs, patches, ret_addrs, beyond, ra_idx) ==
    IF ra_idx >= RET_ADDRS_SIZEOF
    THEN [ra_idx |-> ra_idx, found |-> {}]
    ELSE IF Accepted(all_objs, patches,
                     RetAddrAt(ret_addrs[1], ret_addrs[2], ret_addrs[3], beyond, ra_idx),
                     ra_idx) # {}
    THEN [ra_idx |-> ra_idx,
          found |-> Accepted(all_objs, patches,
                             RetAddrAt(ret_addrs[1], ret_addrs[2], ret_addrs[3],
                                       beyond, ra_idx),
                             ra_idx)]
    ELSE DetectLoop(all_objs, patches, ret_addrs, beyond, ra_idx + 1)

\* The function once the patch it stopped at is known.
ReturnOf(patch, at, cands) ==
    [pc |-> "returned", why |-> "", ret_addrs |-> cands, at |-> at,
     a0 |-> WrapperRet(patch).a0, a1 |-> WrapperRet(patch).a1]

ReturnAt(all_objs, at, cands) ==
    ReturnOf(all_objs[at[1]].items[at[2]], at, cands)

\* The last index at which the loops read ret_addrs: the comparison is made
\* once per patch for every ra_idx the outer loop reaches.
LastRead(all_objs, stop) ==
    IF AllPatches(all_objs) = {} THEN -1
    ELSE IF stop.ra_idx >= RET_ADDRS_SIZEOF THEN RET_ADDRS_SIZEOF - 1
    ELSE stop.ra_idx

\* What the loops left: the process exits, or the pair is returned.
DetectOutcome(all_objs, stop, cands) ==
    IF stop.ra_idx >= RET_ADDRS_SIZEOF
    THEN [pc |-> "exited", why |-> "Failed to identify patch", ret_addrs |-> cands,
          at |-> <<>>, a0 |-> 0, a1 |-> 0, read |-> LastRead(all_objs, stop)]
    ELSE ReturnAt(all_objs, FirstOf(stop.found), cands)
         @@ [read |-> LastRead(all_objs, stop)]

detect_cur_patch(all_objs, MID_ret_addr, SML_ret_addr, GW_ret_addr, beyond) ==
    DetectOutcome(all_objs,
                  DetectLoop(all_objs, AllPatches(all_objs),
                             <<MID_ret_addr, SML_ret_addr, GW_ret_addr>>, beyond, 0),
                  <<MID_ret_addr, SML_ret_addr, GW_ret_addr>>)

\* get_cur_patch, the inner loop from item p on: patch is assigned before the
\* comparison, and the break leaves this loop only.
RECURSIVE ItemsLoop(_, _, _, _, _)
ItemsLoop(all_objs, o, p, return_address, patch) ==
    IF p > Len(all_objs[o].items)
    THEN patch
    ELSE IF all_objs[o].items[p].return_address = return_address
    THEN <<o, p>>
    ELSE ItemsLoop(all_objs, o, p + 1, return_address, <<o, p>>)

\* The outer loop from object o on: it has no exit but its bound.
RECURSIVE ObjsLoop(_, _, _, _)
ObjsLoop(all_objs, o, return_address, patch) ==
    IF o > Len(all_objs)
    THEN patch
    ELSE ObjsLoop(all_objs, o + 1, return_address,
                  ItemsLoop(all_objs, o, 1, return_address, patch))

\* The patch the function returns, as <<o, p>>, or NULL.
get_cur_patch(all_objs, return_address) ==
    ObjsLoop(all_objs, 1, return_address, NULL)

\* The addresses the entry can hand over: the return address of a patch, or
\* an address that is no patch's.
NoPatchAddress == 0
Candidates ==
    {NoPatchAddress} \cup
    {objs[op[1]].items[op[2]].return_address : op \in AllPatches(objs)}

\* The three candidates when the return address of the patch that fired is
\* at slot and another word of the stack is everywhere else.
Handed(fired, slot, other) ==
    [i \in 1..RET_ADDRS_LEN |-> IF i = slot THEN fired ELSE other]

\* Texts with a site of each class: GW, MID and SML.
ClassBlocks == {NearBlock, TailBlock, SmlBlock}

\* find_syscalls disassembles one more run of such a text.
FindSyscallsClasses ==
    /\ ctor.pc = "scan"
    /\ Len(objs) > 0
    /\ TotalBlocks(objs) < MaxBlocks
    /\ \E b \in ClassBlocks :
         objs' = [objs EXCEPT ![Len(objs)] =
                    ObjDesc(Append(@.blocks, b), @.text_start)]
    /\ UNCHANGED <<dvars, rvars, patch_all_objs, libc_found,
                   cur_asm_relocation_space, ctor, mem>>

\* A patched site fires after startup: the entry calls detect_cur_patch with
\* the return address of the patch in one of the three slots.
Detect ==
    /\ ctor.pc = "returned"
    /\ wrapper = NoWrapper
    /\ \E op \in AllPatches(objs), slot \in 1..RET_ADDRS_LEN, other \in Candidates :
         wrapper' = detect_cur_patch(
                        objs,
                        Handed(objs[op[1]].items[op[2]].return_address, slot, other)[1],
                        Handed(objs[op[1]].items[op[2]].return_address, slot, other)[2],
                        Handed(objs[op[1]].items[op[2]].return_address, slot, other)[3],
                        other)
    /\ UNCHANGED <<dvars, svars, site>>

\* The entry takes the pair and goes on to the relocated instructions.
EntryResumes ==
    /\ wrapper.pc = "returned"
    /\ wrapper' = NoWrapper
    /\ UNCHANGED <<dvars, svars, site>>

\* intercept_routine is entered for the patch the entry identified, with the
\* return address of that patch in a6, and looks up the patch to log.
RoutineLooksUp ==
    /\ wrapper.pc = "returned"
    /\ wrapper' = [pc |-> "routine"] @@ wrapper @@
                  [a6 |-> objs[wrapper.at[1]].items[wrapper.at[2]].return_address,
                   patch |-> get_cur_patch(
                       objs, objs[wrapper.at[1]].items[wrapper.at[2]].return_address)]
    /\ UNCHANGED <<dvars, svars, site>>

\* intercept_routine returns to the entry.
RoutineReturns ==
    /\ wrapper.pc = "routine"
    /\ wrapper' = NoWrapper
    /\ UNCHANGED <<dvars, svars, site>>

NextDetect ==
    \/ NotAllowed
    \/ Setup
    \/ AnalyzeObject
    \/ FindSyscallsClasses
    \/ ScanDone
    \/ PlanObject
    \/ PlanDone
    \/ ActivateBegin
    \/ ActivateWrite
    \/ ActivateEnd
    \/ Finish
    \/ Detect
    \/ EntryResumes
    \/ RoutineLooksUp
    \/ RoutineReturns

SpecDetect == InitStartup /\ [][NextDetect]_vars

(***************************************************************************)
(* The planner on one ecall site: create_patch on a text with one site     *)
(* under every choice of the instructions around it.                       *)
(***************************************************************************)
PrefixKinds == {"add", "c_add", "li_a7_write", "c_li_a7_ioctl", "mv_a7", "auipc", "ld_ra"}
SuffixKinds == {"add", "c_add", "mv_a5", "ecall", "auipc", "c_ret"}

\* The instructions of the window before the ecall and after it.
Prefixes == UNION {[1..n -> PrefixKinds] : n \in 0..SYSCALL_IDX}
Suffixes == UNION {[1..n -> SuffixKinds] : n \in 0..(SURROUNDING_INSTRS_NUM - SYSCALL_IDX - 1)}

SomePrefixes ==
    {<<>>, <<"add">>, <<"c_add">>, <<"add", "add", "add">>, <<"li_a7_write">>,
     <<"c_li_a7_ioctl">>, <<"li_a7_write", "auipc">>, <<"li_a7_write", "c_add">>,
     <<"c_li_a7_ioctl", "add", "add">>, <<"ld_ra", "add">>}
SomeSuffixes ==
    {<<>>, <<"add">>, <<"mv_a5">>, <<"auipc">>, <<"c_ret">>, <<"ecall">>,
     <<"add", "ecall">>, <<"mv_a5", "add", "add">>, <<"add", "add", "add">>,
     <<"add", "add", "add", "c_ret">>}

SiteTexts ==
    {<<pre, suf>> : pre \in Prefixes, suf \in SomeSuffixes}
    \cup {<<pre, suf>> : pre \in SomePrefixes, suf \in Suffixes}

\* The jump targets known when the site is planned: none, or one that lands
\* on an instruction of the window.
Landings(patch) ==
    {{}} \cup {{patch.surrounding_instrs[j].address} :
                  j \in {i \in 1..(SURROUNDING_INSTRS_NUM - 1) :
                            patch.surrounding_instrs[i].is_set}}

TrimStart(patch) ==
    [start |-> 0, end |-> SURROUNDING_INSTRS_NUM, num |-> patch.syscall_num]

ScannedSite(pre, suf, jumps) ==
    [pc |-> "scanned",
     text |-> pre \o <<"ecall">> \o suf,
     at |-> Len(pre) + 1,
     jumps |-> jumps,
     landing |-> jumps,
     st |-> TrimStart(NewPatch(Disasm(pre \o <<"ecall">> \o suf, ObjBase(1)), Len(pre) + 1)),
     length |-> 0,
     trimmed |-> NewPatch(Disasm(pre \o <<"ecall">> \o suf, ObjBase(1)), Len(pre) + 1),
     patch |-> NewPatch(Disasm(pre \o <<"ecall">> \o suf, ObjBase(1)), Len(pre) + 1),
     dst |-> 0]

InitPlanner ==
    /\ hooks = [hook |-> FALSE, child |-> FALSE, parent |-> FALSE]
    /\ proc = [p \in ProcIds |-> IF p = 1 THEN FirstProc ELSE NoProc]
    /\ calls = 0
    /\ StartupAt("plan")
    /\ wrapper = NoWrapper
    /\ \E t \in SiteTexts :
         \E jumps \in Landings(ScannedSite(t[1], t[2], {}).patch) :
            site = ScannedSite(t[1], t[2], jumps)

\* create_patch calls check_surrounding_instructions on the site.
TrimSite ==
    /\ site.pc = "scanned"
    /\ site' = [site EXCEPT
                  !.pc = "trimmed",
                  !.st = TrimLoop(WithReturnRegister(site.patch), site.jumps, 0,
                                  TrimStart(site.patch)),
                  !.length = check_surrounding_instructions(site.jumps, site.patch).length,
                  !.trimmed = check_surrounding_instructions(site.jumps, site.patch).patch,
                  !.patch = check_surrounding_instructions(site.jumps, site.patch).patch]
    /\ UNCHANGED <<dvars, svars, wrapper>>

\* create_patch picks the class, or the process exits.
ClassifySite ==
    /\ site.pc = "trimmed"
    /\ site' = [site EXCEPT
                  !.pc = IF Classify(site.patch, site.length).ok
                         THEN "classified" ELSE "exited",
                  !.patch = Classify(site.patch, site.length).patch]
    /\ UNCHANGED <<dvars, svars, wrapper>>

\* create_patch positions the patch, marks its end as a jump target and
\* relocates the displaced instructions.
PlaceSite ==
    /\ site.pc = "classified"
    /\ site' = [site EXCEPT
                  !.pc = "placed",
                  !.patch = PlanClassified([ok |-> TRUE, patch |-> site.patch], site.dst).patch,
                  !.jumps = @ \cup {PlanClassified([ok |-> TRUE, patch |-> site.patch],
                                                   site.dst).last_instr_addr},
                  !.dst = PlanClassified([ok |-> TRUE, patch |-> site.patch], site.dst).dst]
    /\ UNCHANGED <<dvars, svars, wrapper>>

NextPlanner ==
    \/ TrimSite
    \/ ClassifySite
    \/ PlaceSite

SpecPlanner == InitPlanner /\ [][NextPlanner]_vars

(***************************************************************************)
(* Properties of the dispatcher.                                           *)
(***************************************************************************)
Live == {p \in ProcIds : proc[p].pc # "none"}
AtDone == {p \in ProcIds : proc[p].pc = "done"}

Count(seq, k) == Cardinality({i \in DOMAIN seq : seq[i].k = k})

\* The hook ran and returned 0 after storing a value in *result.
Substituted(c) == ~c.magic /\ c.hooked /\ c.hookRet = 0 /\ c.hookWrote # NoWrite

\* No hook is installed, or the hook ran and returned non-zero.
ForwardedByHook(c) == ~hooks.hook \/ (c.hooked /\ c.hookRet # 0)

\* clone with a child stack or CLONE_VFORK; clone3 with a stack member.
NewStackCase(c) ==
    \/ c.nr = SYS_clone /\ (c.args[2] # 0 \/ (c.args[1] \div CLONE_VFORK) % 2 = 1)
    \/ c.nr = SYS_clone3 /\ CloneArgsStack(c.args[1]) # 0

\* C1 as stated: for every syscall number, a call the magic handler leaves
\* alone, whose hook stores R and returns 0, returns a0 = R without a kernel
\* call.
C1_Original ==
    \A p \in AtDone :
        LET c == proc[p].call
        IN Substituted(c) => c.result[1] = c.hookWrote[1] /\ c.kcalls = <<>>

\* C1 amended: the same for every syscall number except rt_sigreturn.
C1_Substitution ==
    \A p \in AtDone :
        LET c == proc[p].call
        IN Substituted(c) /\ c.nr # SYS_rt_sigreturn
           => c.result[1] = c.hookWrote[1] /\ c.kcalls = <<>>

C1_Witness ==
    \E p \in AtDone :
        LET c == proc[p].call
        IN /\ Substituted(c)
           /\ c.nr = SYS_write
           /\ c.hookWrote = HookValue
           /\ c.result[1] = HookValue[1]

\* C2 as stated: with the hook absent or returning non-zero, every call that
\* is neither rt_sigreturn nor a new-stack clone makes exactly one kernel call
\* with the number and six arguments received and returns its (a0, a1).
C2_Original ==
    \A p \in AtDone :
        LET c == proc[p].call
        IN ForwardedByHook(c) /\ c.nr # SYS_rt_sigreturn /\ ~NewStackCase(c)
           => /\ c.kcalls = <<[nr |-> c.nr, args |-> c.args]>>
              /\ c.result = c.kret

\* C2 amended: the same for the calls the magic-syscalls handler does not
\* handle.
C2_Transparency ==
    \A p \in AtDone :
        LET c == proc[p].call
        IN /\ ~c.magic
           /\ ForwardedByHook(c)
           /\ c.nr # SYS_rt_sigreturn
           /\ ~NewStackCase(c)
           => /\ c.kcalls = <<[nr |-> c.nr, args |-> c.args]>>
              /\ c.result = c.kret

C2_Witness ==
    \E p \in AtDone :
        LET c == proc[p].call
        IN /\ ~c.magic
           /\ c.hooked /\ c.hookRet # 0 /\ c.hookWrote = HookValue
           /\ c.nr = SYS_write
           /\ Len(c.kcalls) = 1
           /\ c.result = KernelError

\* C3 as stated: a hook that stores an error value in *result and returns
\* non-zero has that value returned to the caller.
C3_Original ==
    \A p \in AtDone :
        LET c == proc[p].call
        IN ~c.magic /\ c.hooked /\ c.hookRet # 0 /\ c.hookWrote = HookError
           => c.result[1] = HookError[1]

\* C3 amended: a hook that stores an error value in *result and returns
\* non-zero has that value discarded; the caller gets the a0 of the kernel call
\* unchanged when one is made, and UNH_SYSCALL when the call is handed back to
\* the assembly entry.
C3_ForwardedValue ==
    \A p \in AtDone :
        LET c == proc[p].call
        IN ~c.magic /\ c.hooked /\ c.hookRet # 0 /\ c.hookWrote = HookError
           => /\ Len(c.kcalls) <= 1
              /\ c.result[1] = IF Len(c.kcalls) = 1 THEN c.kret[1] ELSE UNH_SYSCALL

C3_Witness ==
    \E p \in AtDone :
        LET c == proc[p].call
        IN /\ ~c.magic /\ c.hooked /\ c.hookRet # 0 /\ c.hookWrote = HookError
           /\ Len(c.kcalls) = 1
           /\ c.result[1] = KernelOk[1]

\* C4: a call with nr = SYS_rt_sigreturn that the magic handler leaves alone
\* returns (UNH_SYSCALL, UNH_GENERIC) and makes no kernel call, with or without
\* a hook and whatever the hook returns.
C4_Sigreturn ==
    \A p \in Live :
        LET c == proc[p].call
        IN c.nr = SYS_rt_sigreturn
           => /\ c.kcalls = <<>>
              /\ proc[p].pc # "kernel"
              /\ (proc[p].pc = "done" /\ ~c.magic
                  => c.result = <<UNH_SYSCALL, UNH_GENERIC>>)

C4_Witness ==
    \E p \in AtDone :
        LET c == proc[p].call
        IN /\ c.nr = SYS_rt_sigreturn /\ c.a7.hi = 1
           /\ ~c.magic /\ c.hooked /\ c.hookRet = 0 /\ c.hookWrote = HookValue
           /\ c.result = <<UNH_SYSCALL, UNH_GENERIC>>

NoPostClone(tr) == Count(tr, "clone_child") = 0 /\ Count(tr, "clone_parent") = 0

\* C5 as stated, on the calls that reach the hook: every new-stack clone or
\* clone3 returns (UNH_SYSCALL, UNH_CLONE) with no kernel call and no
\* post-clone hook.
C5_Original ==
    \A p \in AtDone :
        LET c == proc[p].call
        IN NewStackCase(c) /\ ~c.magic
           => /\ c.result = <<UNH_SYSCALL, UNH_CLONE>>
              /\ c.kcalls = <<>>
              /\ NoPostClone(proc[p].trace)

\* C5 amended: the same for the new-stack clones that are forwarded: not
\* handled by the magic handler, and with no hook or a hook returning non-zero.
C5_NewStackClone ==
    \A p \in AtDone :
        LET c == proc[p].call
        IN NewStackCase(c) /\ ~c.magic /\ ForwardedByHook(c)
           => /\ c.result = <<UNH_SYSCALL, UNH_CLONE>>
              /\ c.kcalls = <<>>
              /\ NoPostClone(proc[p].trace)

C5_Witness ==
    \E p \in AtDone :
        LET c == proc[p].call
        IN /\ c.nr = SYS_clone /\ c.args[2] = 0 /\ c.args[1] = VforkFlags[1]
           /\ ~c.magic /\ c.hooked /\ c.hookRet # 0
           /\ c.result = <<UNH_SYSCALL, UNH_CLONE>>

\* The events of h after index from, up to and including the next return.
SegEnd(h, from) ==
    IF \E i \in (from + 1)..Len(h) : h[i].k = "return"
    THEN CHOOSE i \in (from + 1)..Len(h) :
             /\ h[i].k = "return"
             /\ \A j \in (from + 1)..(i - 1) : h[j].k # "return"
    ELSE 0
Seg(h, from) == SubSeq(h, from + 1, SegEnd(h, from))

\* The clone that created q has returned in q and in its parent.
CloneReturned(q) ==
    /\ proc[q].parent # 0
    /\ SegEnd(proc[q].hist, 0) # 0
    /\ SegEnd(proc[proc[q].parent].hist, proc[q].bornAt) # 0

ChildSide(q) == Seg(proc[q].hist, 0)
ParentSide(q) == Seg(proc[proc[q].parent].hist, proc[q].bornAt)

\* The clone-child hook comes before every intercept_hook_point call in q.
ChildHookFirst(q) ==
    \A i \in DOMAIN proc[q].hist :
        proc[q].hist[i].k = "hook"
        => \E j \in 1..(i - 1) : proc[q].hist[j].k = "clone_child"

\* C6 as stated: once a forwarded same-stack clone has returned in both
\* processes, the clone-child hook has run exactly once in the child and never
\* in the parent, the clone-parent hook exactly once in the parent and never in
\* the child, and in the child the clone-child hook precedes every call of
\* intercept_hook_point.
C6_Original ==
    \A q \in Live :
        CloneReturned(q)
        => /\ Count(ChildSide(q), "clone_child") = 1
           /\ Count(ParentSide(q), "clone_child") = 0
           /\ Count(ParentSide(q), "clone_parent") = 1
           /\ Count(ChildSide(q), "clone_parent") = 0
           /\ ChildHookFirst(q)

\* C6 amended: the same for each post-clone hook that is installed; a hook
\* pointer left NULL is not invoked on either side.
C6_CloneFidelity ==
    \A q \in Live :
        CloneReturned(q)
        => /\ Count(ChildSide(q), "clone_child") = (IF hooks.child THEN 1 ELSE 0)
           /\ Count(ParentSide(q), "clone_child") = 0
           /\ Count(ParentSide(q), "clone_parent") = (IF hooks.parent THEN 1 ELSE 0)
           /\ Count(ChildSide(q), "clone_parent") = 0
           /\ (hooks.child => ChildHookFirst(q))

C6_Witness ==
    \E q \in Live :
        /\ CloneReturned(q)
        /\ hooks.child /\ hooks.parent /\ hooks.hook
        /\ Count(ChildSide(q), "clone_child") = 1
        /\ Count(ParentSide(q), "clone_parent") = 1
        /\ Count(proc[q].hist, "hook") = 1

\* C7: whenever the clone-parent hook is invoked, its process is the parent of
\* a child that the clone created and its argument is that child's TID, a
\* positive value; never 0 and never a kernel error code.
C7_ParentHookTid ==
    \A p \in Live :
        \A i \in DOMAIN proc[p].hist :
            proc[p].hist[i].k = "clone_parent"
            => /\ proc[p].hist[i].v > 0
               /\ \E q \in Live : proc[q].parent = p /\ proc[p].hist[i].v = Tid(q)

(***************************************************************************)
(* Properties of the startup constructor.                                  *)
(***************************************************************************)
\* The ecall sites find_syscalls recorded for an object, before planning.
ScannedItems(desc) == find_syscalls(Flatten(desc.blocks), desc.text_start)

\* Some ecall site of the object fits no class: the first loop of
\* create_patch does not get through its sites.
Unpatchable(desc) == ~PlanFrom(ScannedItems(desc), 1, {}, 0).ok

\* create_patch has completed on the object.
Planned(desc) == \A k \in DOMAIN desc.items : desc.items[k].surrounding_instrs = NULL

\* Some byte of some object's text has been overwritten.
TextTouched ==
    \E o \in DOMAIN mem.text : mem.text[o].written # {} \/ mem.text[o].trampoline

\* C8: startup is all-or-nothing.  A byte of an object's text is overwritten,
\* or the constructor returns, only if no ecall site of any selected object
\* fits no class; text is overwritten only after create_patch
\* has completed on every object; and when the constructor has returned, every
\* recorded site of every selected object has been written by the copy
\* function of its class.
C8_AllOrNothing ==
    /\ (TextTouched \/ ctor.pc = "returned")
          => \A o \in DOMAIN objs : ~Unpatchable(objs[o])
    /\ TextTouched => \A o \in DOMAIN objs : Planned(objs[o])
    /\ ctor.pc = "returned" =>
          \A o \in DOMAIN objs : \A k \in DOMAIN objs[o].items :
              <<k, Copier(objs[o].items[k])>> \in mem.text[o].written

\* The process has exited on a site that fits no class, after create_patch had
\* completed on another object, and no text has been overwritten.
C8_Witness ==
    /\ ctor.pc = "exited"
    /\ ctor.why = "not enough space for patching around syscall"
    /\ \E o \in DOMAIN objs : Len(objs[o].items) > 0 /\ Planned(objs[o])
    /\ \E o \in DOMAIN objs : Unpatchable(objs[o])
    /\ ~TextTouched

\* C9: once the constructor has finished, the relocation buffer and the text
\* of every object are read+execute; while the process runs, the relocation
\* buffer is writable only between the two calls of
\* write_enable_asm_relocation_space, and the text of an object only inside
\* the activate_patches call on that object.
C9_Protections ==
    /\ ctor.pc = "returned" =>
          /\ mem.reloc = "rx"
          /\ \A o \in DOMAIN mem.text : mem.text[o].prot = "rx"
    /\ (ctor.pc # "exited" /\ mem.reloc = "rwx") => ctor.pc = "plan"
    /\ \A o \in DOMAIN mem.text :
          (ctor.pc # "exited" /\ mem.text[o].prot = "rwx")
             => (ctor.pc = "write" /\ ctor.i = o)

\* The constructor has returned after patching two objects.
C9_Witness ==
    /\ ctor.pc = "returned"
    /\ mem.reloc = "rx"
    /\ Cardinality({o \in DOMAIN mem.text : mem.text[o].written # {}}) >= 2

\* The GW patches of the object in reach of the jal of a MID or SML patch.
JalOf(patch) ==
    IF patch.syscall_num = TYPE_MID
    THEN patch.return_address - JAL_INS_SIZE + MODIFY_SP_INS_SIZE
    ELSE patch.return_address - JAL_INS_SIZE

GatewaysOf(desc, patch) ==
    {g \in DOMAIN desc.items :
        /\ desc.items[g].syscall_num = TYPE_GW
        /\ Abs(desc.items[g].dst_jmp_patch - JalOf(patch)) < JAL_MID_REACH}

JumpsToGateway(desc, patch) ==
    \E g \in GatewaysOf(desc, patch) :
        patch.dst_jmp_patch =
            desc.items[g].dst_jmp_patch
            + (IF patch.syscall_num = TYPE_MID THEN MODIFY_SP_INS_SIZE ELSE 0)

\* C10: after gateway resolution every MID and every SML patch has a GW patch
\* of its object within JAL_MID_REACH bytes of its jal and jumps to that
\* gateway's entry (plus MODIFY_SP_INS_SIZE for MID), and no MID or SML patch
\* is written without one.
C10_GatewayInReach ==
    \A o \in DOMAIN objs :
        \A k \in DOMAIN objs[o].items :
            LET patch == objs[o].items[k]
            IN (Planned(objs[o]) /\ patch.syscall_num # TYPE_GW) =>
                  /\ JumpsToGateway(objs[o], patch)
                  /\ <<k, Copier(patch)>> \in mem.text[o].written
                        => GatewaysOf(objs[o], patch) # {}

(***************************************************************************)
(* Properties of the planned patches.                                      *)
(***************************************************************************)
\* The patches create_patch has completed, as <<object, item>> pairs.
PlannedPatches ==
    {ok \in UNION {{<<o, k>> : k \in DOMAIN objs[o].items} : o \in DOMAIN objs} :
        Planned(objs[ok[1]])}

PatchAt(ok) == objs[ok[1]].items[ok[2]]

Disjoint(p, q) ==
    \/ CopyStart(p) + CopySize(p) <= CopyStart(q)
    \/ CopyStart(q) + CopySize(q) <= CopyStart(p)

\* C11: the byte ranges two distinct patches overwrite in the text, with
\* their compressed-NOP padding, are disjoint.
C11_Disjoint ==
    \A a \in PlannedPatches : \A b \in PlannedPatches :
        a # b => Disjoint(PatchAt(a), PatchAt(b))

\* C12: after planning, no two distinct patches of the process, of the same
\* object or of different objects, have the same return_address.
C12_UniqueReturnAddress ==
    \A a \in PlannedPatches : \A b \in PlannedPatches :
        a # b => PatchAt(a).return_address # PatchAt(b).return_address

\* Two planned patches of one object together with a planned patch of another.
C12_Witness ==
    \E a \in PlannedPatches : \E b \in PlannedPatches : \E c \in PlannedPatches :
        /\ a[1] = b[1] /\ a[2] # b[2]
        /\ c[1] # a[1]
        /\ PatchAt(a).syscall_num = PatchAt(b).syscall_num

\* C13: every patch whose bytes activate_patches has written lies inside the
\* text of its object: text_start <= dst_jmp_patch and
\* dst_jmp_patch + patch_size_bytes <= text_end.
C13_WrittenInsideText ==
    \A o \in DOMAIN mem.text : \A w \in mem.text[o].written :
        /\ objs[o].text_start <= objs[o].items[w[1]].dst_jmp_patch
        /\ objs[o].items[w[1]].dst_jmp_patch + objs[o].items[w[1]].patch_size_bytes
              <= objs[o].text_end

\* C14: no byte of a relocation block is written at or beyond the end of the
\* relocation space: the write position never passes
\* asm_relocation_space + asm_relocation_space_size.
C14_RelocationInBounds ==
    cur_asm_relocation_space <= asm_relocation_space_size

(***************************************************************************)
(* Properties of detect_cur_patch.                                         *)
(***************************************************************************)
\* The slot of the candidate array that belongs to the class of a patch.
SlotOfClass(patch) ==
    IF patch.patch_size_bytes = TYPE_GW_SIZE THEN 3
    ELSE IF patch.patch_size_bytes = TYPE_MID_SIZE THEN 1
    ELSE 2

\* The patches whose return address is the candidate in the slot of their class.
ConsistentMatches ==
    {op \in UNION {{<<o, p>> : p \in DOMAIN objs[o].items} : o \in DOMAIN objs} :
        PatchAt(op).return_address = wrapper.ret_addrs[SlotOfClass(PatchAt(op))]}

\* C15: detect_cur_patch returns the pair of a patch only if the return
\* address of that patch is the candidate in the slot of its class (MID 0,
\* SML 1, GW 2); when no patch matches a candidate in the slot of its class,
\* the process exits and nothing is returned.
C15_ClassConsistentMatch ==
    /\ wrapper.pc = "returned" =>
          \E op \in ConsistentMatches :
              /\ wrapper.a0 = PatchAt(op).syscall_num
              /\ wrapper.a1 = PatchAt(op).relocation_address
    /\ (wrapper.pc # "none" /\ ConsistentMatches = {}) => wrapper.pc = "exited"

\* The process exited although candidates were return addresses of patches,
\* each in a slot of another class.
C15_Witness ==
    /\ wrapper.pc = "exited"
    /\ \E op \in PlannedPatches :
          \E slot \in 1..RET_ADDRS_LEN : wrapper.ret_addrs[slot] = PatchAt(op).return_address

\* C16 as stated: a0 is the class tag of the matched patch, one of TYPE_GW,
\* TYPE_MID and TYPE_SML, and a1 is its relocation_address.
C16_ClassTagReturned ==
    wrapper.pc = "returned" =>
        /\ wrapper.a0 \in {TYPE_GW, TYPE_MID, TYPE_SML}
        /\ wrapper.a1 = PatchAt(wrapper.at).relocation_address

\* The syscall numbers the instructions of the object of a patch load into a7.
NumbersLoaded(op) ==
    {InstrOf(objs[op[1]].blocks[b][j]).a7_set :
        <<b, j>> \in UNION {{<<b, j>> : j \in DOMAIN objs[op[1]].blocks[b]} :
                               b \in DOMAIN objs[op[1]].blocks}} \ {-1}

\* C16 amended: a1 is the relocation_address of the matched patch; a0 is
\* TYPE_GW for a GW patch, TYPE_MID for a MID patch, and for an SML patch the
\* syscall number recovered for the site, a number its object loads into a7,
\* which is not negative and is no class tag.
C16_TagOrNumberReturned ==
    wrapper.pc = "returned" =>
        /\ wrapper.a1 = PatchAt(wrapper.at).relocation_address
        /\ IF PatchAt(wrapper.at).patch_size_bytes = TYPE_GW_SIZE
           THEN wrapper.a0 = TYPE_GW
           ELSE IF PatchAt(wrapper.at).patch_size_bytes = TYPE_MID_SIZE
           THEN wrapper.a0 = TYPE_MID
           ELSE /\ wrapper.a0 >= 0
                /\ wrapper.a0 \in NumbersLoaded(wrapper.at)

\* An SML patch was matched and its pair returned.
C16_Witness ==
    /\ wrapper.pc = "returned"
    /\ PatchAt(wrapper.at).patch_size_bytes < TYPE_MID_SIZE
    /\ wrapper.ret_addrs[2] = PatchAt(wrapper.at).return_address

(***************************************************************************)
(* Properties of the planner on one site.                                  *)
(***************************************************************************)
\* The site has been through the classification of create_patch.
Classified == site.pc \in {"classified", "exited"}

\* The class create_patch chose.
ChosenClass ==
    IF site.pc = "exited" THEN "abort"
    ELSE IF site.patch.syscall_num = TYPE_GW THEN "GW"
    ELSE IF site.patch.syscall_num = TYPE_MID THEN "MID"
    ELSE "SML"

\* The size of the a7 reload an SML patch of the site needs.
ReloadSize ==
    IF site.trimmed.return_register # 0 THEN 0
    ELSE IF site.trimmed.syscall_num <= 31 THEN C_LI_INS_SIZE
    ELSE ADDI_INS_SIZE

\* The class the rule on the size of the trimmed span gives.
RuleClass ==
    IF site.length >= TYPE_GW_SIZE THEN "GW"
    ELSE IF site.length >= TYPE_MID_SIZE THEN "MID"
    ELSE IF /\ site.trimmed.syscall_num >= 0
            /\ site.length >= JAL_INS_SIZE + ReloadSize
    THEN "SML"
    ELSE "abort"

\* C17: the class is GW if the span has TYPE_GW_SIZE bytes, else MID if it
\* has TYPE_MID_SIZE bytes, else SML exactly when the number is known and the
\* span holds the jal and, only when no return register was captured, the a7
\* reload; otherwise the process exits.  GW and MID get return_register ra.
C17_ClassChoice ==
    Classified =>
        /\ ChosenClass = RuleClass
        /\ ChosenClass \in {"GW", "MID"} => site.patch.return_register = REG_RA

\* The window of the site as find_syscalls filled it.
ScannedWindow == NewPatch(Disasm(site.text, ObjBase(1)), site.at).surrounding_instrs

PrefixIdx == 0..(SYSCALL_IDX - 1)

\* The instructions of the prefix that load a7 with a number.
Loads == {i \in PrefixIdx : ScannedWindow[i].a7_set > -1}

\* A later instruction of the prefix modifies a7 after the load at i.
ClobberedAfter(i) ==
    \E k \in PrefixIdx : k > i /\ ScannedWindow[k].is_a7_modified

\* The instructions after the load at i, up to the ecall, that a jump lands on.
LandingsAfter(i) ==
    {k \in (i + 1)..SYSCALL_IDX : has_jump(site.landing, ScannedWindow[k].address)}

\* The number the site has at classification was loaded by an instruction of
\* the prefix that nothing clobbers and no jump lands behind.
NumberIsSound ==
    site.trimmed.syscall_num >= 0 =>
        \E i \in Loads :
            /\ ScannedWindow[i].a7_set = site.trimmed.syscall_num
            /\ ~ClobberedAfter(i)
            /\ LandingsAfter(i) = {}

\* A site whose only load is clobbered, or has a jump landing behind it, has
\* no number at classification.
LostNumberIsUnknown ==
    \A i \in Loads :
        (Loads = {i} /\ (ClobberedAfter(i) \/ LandingsAfter(i) # {}))
            => site.trimmed.syscall_num = -1

SecondEcall ==
    {e \in (SYSCALL_IDX + 1)..(SURROUNDING_INSTRS_NUM - 1) :
        /\ ScannedWindow[e].is_syscall
        /\ \A m \in (SYSCALL_IDX + 1)..(e - 1) :
              /\ ~ScannedWindow[m].is_syscall
              /\ is_copiable_after_syscall(ScannedWindow[m])
              /\ ~has_jump(site.landing, ScannedWindow[m].address)}

\* The bytes of the window from patch_start_idx to i.
SpanSize(i) == SumLen(ScannedWindow, site.st.start, i)

\* The ends of the spans from patch_start_idx that stop before e and are
\* MID-sized, or SML-patchable.
MidEnds(e) == {i + 1 : i \in {j \in site.st.start..(e - 1) : SpanSize(j) >= TYPE_MID_SIZE}}
SmlEnds(e) ==
    {i + 1 : i \in {j \in site.st.start..(e - 1) : is_SML_patchable(site.trimmed, SpanSize(j))}}

Least(ends) == CHOOSE x \in ends : \A y \in ends : x <= y

\* The end index by the stated order: MID at the first ecall, SML at the
\* first ecall, MID before the second ecall when the number is unknown, SML
\* before the second ecall, else start_idx.
StatedEnd(e) ==
    IF SpanSize(SYSCALL_IDX) >= TYPE_MID_SIZE THEN SYSCALL_IDX + 1
    ELSE IF is_SML_patchable(site.trimmed, SpanSize(SYSCALL_IDX)) THEN SYSCALL_IDX + 1
    ELSE IF site.trimmed.syscall_num < 0 /\ MidEnds(e) # {} THEN Least(MidEnds(e))
    ELSE IF SmlEnds(e) # {} THEN Least(SmlEnds(e))
    ELSE site.st.start

\* The end index by the order of the code: with the number unknown the
\* shortest MID-sized span before the second ecall, wherever it ends; then a
\* MID-sized or SML-patchable span at the first ecall; then the shortest
\* SML-patchable span before the second ecall; else start_idx.
CodeEnd(e) ==
    IF site.trimmed.syscall_num < 0 /\ MidEnds(e) # {} THEN Least(MidEnds(e))
    ELSE IF SpanSize(SYSCALL_IDX) >= TYPE_MID_SIZE THEN SYSCALL_IDX + 1
    ELSE IF is_SML_patchable(site.trimmed, SpanSize(SYSCALL_IDX)) THEN SYSCALL_IDX + 1
    ELSE IF SmlEnds(e) # {} THEN Least(SmlEnds(e))
    ELSE site.st.start

\* The patch of the site leaves the instruction at address alone.
LeavesAlone(address) ==
    \/ CopyStart(site.patch) + CopySize(site.patch) <= address
    \/ address + ECALL_INS_SIZE <= CopyStart(site.patch)

SiteInstrs == Disasm(site.text, ObjBase(1))

\* The instructions before and after the ecall whose bytes the patch
\* overwrites.
DisplacedBefore ==
    {j \in DOMAIN SiteInstrs :
        /\ SiteInstrs[j].address < site.patch.syscall_addr
        /\ SiteInstrs[j].address + SiteInstrs[j].length > CopyStart(site.patch)}

DisplacedAfter ==
    {j \in DOMAIN SiteInstrs :
        /\ SiteInstrs[j].address > site.patch.syscall_addr
        /\ SiteInstrs[j].address < CopyStart(site.patch) + CopySize(site.patch)}

UsesRa(group) == \E j \in group : SiteInstrs[j].is_ra_used

\* The bytes relocate_instrs emits when no group is wrapped.
UnwrappedBlockSize ==
    RelocBlockSize([site.patch EXCEPT !.is_ra_used_before = FALSE,
                                      !.is_ra_used_after = FALSE])

\* The bytes of one ra swap around a group.
WrapSize(wrapped) == IF wrapped THEN 2 * RA_SWAP_SIZE ELSE 0

\* C20: is_ra_used_before holds exactly when a displaced instruction before
\* the ecall uses ra, is_ra_used_after exactly when a displaced instruction
\* after the ecall does, and the relocation block wraps a displaced group with
\* the ra swap exactly when the group uses ra.
C20_RaFlagsExact ==
    site.pc = "placed" =>
        /\ site.patch.is_ra_used_before <=> UsesRa(DisplacedBefore)
        /\ site.patch.is_ra_used_after <=> UsesRa(DisplacedAfter)
        /\ site.dst = UnwrappedBlockSize + WrapSize(UsesRa(DisplacedBefore))
                      + WrapSize(UsesRa(DisplacedAfter))

(***************************************************************************)
(* Properties of the lookup for the log calls.                             *)
(***************************************************************************)
\* The patches whose return address is the one looked up.
Matching(return_address) ==
    {op \in AllPatches(objs) :
        objs[op[1]].items[op[2]].return_address = return_address}

\* C21: get_cur_patch returns the first patch, in object order and then in
\* patch order, whose return address is the argument, so the patch handed to
\* the log calls is the patch that fired.
C21_FirstMatchLogged ==
    wrapper.pc = "routine" =>
        /\ wrapper.patch = FirstOf(Matching(wrapper.a6))
        /\ wrapper.patch = wrapper.at

(***************************************************************************)
(* Properties of the gateway chosen for a MID or SML patch.                *)
(***************************************************************************)
\* The distance from the jal of a patch to the entry of gateway g.
Distance(desc, g, patch) == Abs(desc.items[g].dst_jmp_patch - JalOf(patch))

\* The gateways in reach whose entry the patch jumps to.
ChosenGateways(desc, patch) ==
    {g \in GatewaysOf(desc, patch) :
        patch.dst_jmp_patch =
            desc.items[g].dst_jmp_patch
            + (IF patch.syscall_num = TYPE_MID THEN MODIFY_SP_INS_SIZE ELSE 0)}

\* C22: a MID or SML patch with GW patches of its object within JAL_MID_REACH
\* bytes of its jal is paired with the one of them at the least distance from
\* that jal.
C22_NearestGateway ==
    \A o \in DOMAIN objs :
        \A k \in DOMAIN objs[o].items :
            (/\ Planned(objs[o])
             /\ objs[o].items[k].syscall_num # TYPE_GW
             /\ GatewaysOf(objs[o], objs[o].items[k]) # {}) =>
                \E g \in ChosenGateways(objs[o], objs[o].items[k]) :
                    \A h \in GatewaysOf(objs[o], objs[o].items[k]) :
                        Distance(objs[o], g, objs[o].items[k])
                            <= Distance(objs[o], h, objs[o].items[k])

(***************************************************************************)
(* Properties of the order of events in one invocation.                    *)
(***************************************************************************)
\* The stage of intercept_routine an event belongs to.
Stage(k) ==
    CASE k = "enter" -> 0
      [] k = "magic" -> 1
      [] k = "log_unknown" -> 2
      [] k = "hook" -> 3
      [] k = "kernel" -> 4
      [] k \in {"clone_child", "clone_parent"} -> 5
      [] k = "log_known" -> 6

\* The trace has an event of one of the kinds.
Has(tr, kinds) == \E i \in DOMAIN tr : tr[i].k \in kinds

\* No event of a later stage precedes one of an earlier stage (each event is
\* compared with the next), and the magic-syscalls check is the first thing
\* an invocation does.
InStageOrder(tr) ==
    /\ \A i \in 1..(Len(tr) - 1) : Stage(tr[i].k) <= Stage(tr[i + 1].k)
    /\ (Len(tr) >= 2 /\ tr[1].k = "enter") => tr[2].k = "magic"

\* C23: in one invocation of intercept_routine the events come in the order
\* magic-syscalls check, UNKNOWN log, hook, kernel call, post-clone hook,
\* KNOWN log; a call the magic-syscalls handler takes ends there with no log,
\* hook or kernel call; the kernel is called only for a forwarded call, the
\* post-clone hook only for a forwarded clone or clone3, and the KNOWN log
\* carries the result the invocation returns.
C23_EventOrder ==
    \A p \in ProcIds :
        proc[p].trace # <<>> =>
            /\ InStageOrder(proc[p].trace)
            /\ proc[p].call.magic =>
                  /\ proc[p].pc = "done"
                  /\ proc[p].trace = <<Ev("enter", 0), Ev("magic", 0)>>
            /\ Has(proc[p].trace, {"kernel"}) => proc[p].call.fwd # 0
            /\ Has(proc[p].trace, {"clone_child", "clone_parent"}) =>
                  /\ IsClone(proc[p].call.nr)
                  /\ proc[p].call.fwd # 0
                  /\ proc[p].call.kcalls # <<>>
            /\ Has(proc[p].trace, {"log_known"}) =>
                  /\ proc[p].pc = "done"
                  /\ proc[p].trace[Len(proc[p].trace)]
                        = Ev("log_known", proc[p].call.result[1])
                  /\ ~Has(SubSeq(proc[p].trace, 1, Len(proc[p].trace) - 1),
                          {"log_known"})

\* A forwarded clone has gone through every stage, in the parent.
C23_Witness ==
    \E p \in ProcIds :
        /\ proc[p].pc = "done"
        /\ Len(proc[p].trace) = 7
        /\ [i \in 1..7 |-> proc[p].trace[i].k]
              = <<"enter", "magic", "log_unknown", "hook", "kernel",
                  "clone_parent", "log_known">>

(***************************************************************************)
(* Properties of the reads of the candidate array.                         *)
(***************************************************************************)
\* C24: detect_cur_patch reads ret_addrs at the indices 0..2 only, also when
\* no patch matches a candidate.
C24_IndexInArray ==
    wrapper.pc \in {"returned", "exited"} => wrapper.read < RET_ADDRS_LEN

(***************************************************************************)
(* Properties of the trimmed span.                                         *)
(***************************************************************************)
\* C25: a span that window trimming leaves non-empty holds the ecall,
\* patch_start_idx <= SYSCALL_IDX < patch_end_idx, also when the end comes
\* from check_two_ecalls, and the patchable size covers the instructions from
\* the start of the span through the ecall.
C25_SpanHoldsEcall ==
    (site.pc \notin {"none", "scanned"} /\ site.st.end - site.st.start >= 1) =>
        /\ site.st.start <= SYSCALL_IDX
        /\ SYSCALL_IDX < site.st.end
        /\ site.length >= SpanSize(SYSCALL_IDX)

====
